---------------------------- MODULE Spec2Model ----------------------------
(***************************************************************************)
(* Model of scripts/domo-to-backend-sync.py: one run of main(), from the   *)
(* parsed command line and environment to the process exit status.         *)
(*                                                                         *)
(* Strings the script converts (strip, split on "=") are sequences of      *)
(* tokens: a token is a blank, the "=" sign, or a whole word.  Dataset     *)
(* keys, once converted, are TLA+ strings.  A row is opaque to the script  *)
(* (it is only counted, sliced and serialised), so a row is the integer    *)
(* of its position in the source file or export.                           *)
(***************************************************************************)
EXTENDS Integers, Sequences, FiniteSets, TLC

(***************************************************************************)
(* Bounds.  CHUNK_ROWS is 5000 in the script and the hash sample is 50     *)
(* rows; the model runs the same code at a scaled threshold so that        *)
(* datasets of one, two and three chunks are enumerable.                   *)
(***************************************************************************)
CHUNK_ROWS == 2
HashSampleRows == 1
MaxRows == 5

SP == " "
EQ == "="

Min(a, b) == IF a <= b THEN a ELSE b

\* rows[lo:hi] of Python, 0-based, hi exclusive, both clipped to the length
Slice(s, lo, hi) == SubSeq(s, Min(lo, Len(s)) + 1, Min(hi, Len(s)))

\* the n rows of a file or export, in order
Rows(n) == [j \in 1..n |-> j]

(***************************************************************************)
(* str.strip(), "=" in s, str.split("=", 1) on token strings, and the      *)
(* string a token string stands for.                                       *)
(***************************************************************************)
RECURSIVE LStrip(_)
LStrip(s) == IF s /= <<>> /\ Head(s) = SP THEN LStrip(Tail(s)) ELSE s

RECURSIVE RStrip(_)
RStrip(s) ==
    IF s /= <<>> /\ s[Len(s)] = SP THEN RStrip(SubSeq(s, 1, Len(s) - 1)) ELSE s

Strip(s) == RStrip(LStrip(s))

RECURSIVE Text(_)
Text(s) == IF s = <<>> THEN "" ELSE Head(s) \o Text(Tail(s))

HasEq(s) == \E j \in 1..Len(s) : s[j] = EQ

FirstEq(s) == CHOOSE j \in 1..Len(s) : s[j] = EQ /\ \A h \in 1..(j - 1) : s[h] /= EQ

SplitKey(s) == SubSeq(s, 1, FirstEq(s) - 1)

SplitValue(s) == SubSeq(s, FirstEq(s) + 1, Len(s))

(***************************************************************************)
(* Python dicts keep insertion order: a dict is a sequence of              *)
(* [key, val] entries with distinct keys.                                  *)
(***************************************************************************)
DictKeys(d) == [j \in 1..Len(d) |-> d[j].key]

DictHas(d, key) == \E j \in 1..Len(d) : d[j].key = key

DictGet(d, key) == d[CHOOSE j \in 1..Len(d) : d[j].key = key].val

\* d[key] = val: an existing key keeps its place, a new one goes last
DictSet(d, key, val) ==
    IF DictHas(d, key)
    THEN [j \in 1..Len(d) |-> IF d[j].key = key THEN [key |-> key, val |-> val] ELSE d[j]]
    ELSE Append(d, [key |-> key, val |-> val])

\* del d[key]
DictDel(d, key) == SelectSeq(d, LAMBDA e : e.key /= key)

SYNC_KEYS ==
    << "leasing", "MMRData", "unitbyunittradeout", "portfolioUnitDetails",
       "units", "unitmix", "pricing", "recentrents" >>

InSyncKeys(key) == \E j \in 1..Len(SYNC_KEYS) : SYNC_KEYS[j] = key

\* the keys of DATASET_ID_ENV, in its order; the values are the names of
\* the environment variables, which env.dataset_ids is indexed by key instead
DATASET_ID_ENV == SYNC_KEYS

VARIABLES
    args,         \* argparse namespace: local, dry_run, skip_pud, only
    env,          \* os.environ after load_dotenv: API_BASE_URL, DOMO_*
    pc,           \* position of main()
    local_paths,  \* main: dict key -> path built from --local
    k,            \* index of the loop over dataset_ids / local_paths
    payload,      \* the payload as built (lines 310, 325)
    sync_payload, \* the name payload after the --only rebinding (line 337)
    i,            \* post_sync: index of the dataset loop
    c,            \* post_sync: index of the chunk loop
    chunks,       \* post_sync: chunks of the dataset being uploaded
    full_hash,    \* post_sync: _data_hash(rows) of that dataset
    requests,     \* POSTs to /api/leasing/sync in the order sent, each with its outcome
    all_synced,
    all_skipped,
    all_errors,
    result,       \* <<>> until post_sync returns, then <<its return value>>
    stdout,       \* documents printed to stdout
    stderr,       \* "skip" lines printed to stderr while building the payload
    exit_status   \* -1 while running, then the status of sys.exit(main())

vars ==
    << args, env, pc, local_paths, k, payload, sync_payload, i, c, chunks,
       full_hash, requests, all_synced, all_skipped, all_errors, result,
       stdout, stderr, exit_status >>

(***************************************************************************)
(* Inputs of a run.                                                        *)
(***************************************************************************)
PairLeasing == <<"leasing", EQ, "leasing.json">>
PairPud == <<"portfolioUnitDetails", EQ, "pud.json">>
PairPadded == <<SP, "leasing", SP, EQ, SP, "other.json">>
PairUnknown == <<"bogus", EQ, "bogus.json">>
PairNoEq == <<"leasing">>

\* values of --local KEY=PATH ...; <<>> is a bare --local
LocalChoices ==
    { <<>>, <<PairLeasing>>, <<PairLeasing, PairPud>>, <<PairPud, PairLeasing>>,
      <<PairLeasing, PairPadded>>, <<PairUnknown, PairPud>>, <<PairUnknown>>,
      <<PairPud, PairNoEq>> }

\* values of --only KEY
OnlyChoices ==
    { <<>>, <<SP>>, <<"leasing">>, <<SP, "portfolioUnitDetails", SP>>, <<"pricing">> }

UrlChoices == { <<>>, <<SP>>, <<"https://api.example.com/">> }

\* the DOMO_DATASET_* variables: those of the keys in S are set
DatasetIdsOf(S) ==
    [key \in {SYNC_KEYS[j] : j \in 1..Len(SYNC_KEYS)} |->
        IF key \in S THEN <<"id-", key>> ELSE <<>>]

DatasetIdChoices == { DatasetIdsOf(S) : S \in SUBSET {"leasing", "portfolioUnitDetails"} }

NoDomoEnv(e) ==
    /\ e.DOMO_CLIENT_ID = <<>>
    /\ e.DOMO_CLIENT_SECRET = <<>>
    /\ e.dataset_ids = DatasetIdsOf({})

\* what a file holds: a JSON array of rows, or one bare JSON object
FileContents ==
    { [is_list |-> TRUE, list |-> Rows(n), obj |-> 0] : n \in 0..MaxRows }
        \cup { [is_list |-> FALSE, list |-> <<>>, obj |-> 1] }

\* the CSV export of a dataset has n rows (n = 0: an empty body)
ExportSizes == 0..MaxRows

(***************************************************************************)
(* Init: main() is entered with the parsed arguments and the environment.  *)
(* In --local mode the script reads neither --skip-pud nor the DOMO_*      *)
(* variables, so they are left unset there.                                *)
(***************************************************************************)
Init ==
    /\ args \in [ local : [given : BOOLEAN, pairs : LocalChoices],
                  dry_run : BOOLEAN,
                  skip_pud : BOOLEAN,
                  only : [given : BOOLEAN, value : OnlyChoices] ]
    /\ env \in [ API_BASE_URL : UrlChoices,
                 DOMO_CLIENT_ID : { <<>>, <<"id">> },
                 DOMO_CLIENT_SECRET : { <<>>, <<"secret">> },
                 dataset_ids : DatasetIdChoices ]
    /\ (~args.local.given) => args.local.pairs = <<>>
    /\ (~args.only.given) => args.only.value = <<>>
    /\ (args.local.pairs /= <<>>) => (~args.skip_pud /\ NoDomoEnv(env))
    /\ pc = "main"
    /\ local_paths = <<>>
    /\ k = 0
    /\ payload = <<>>
    /\ sync_payload = <<>>
    /\ i = 0
    /\ c = 0
    /\ chunks = <<>>
    /\ full_hash = <<>>
    /\ requests = <<>>
    /\ all_synced = <<>>
    /\ all_skipped = <<>>
    /\ all_errors = <<>>
    /\ result = <<>>
    /\ stdout = <<>>
    /\ stderr = <<>>
    /\ exit_status = -1

\* os.environ.get(NAME, "").strip()
EnvGet(v) == Text(Strip(v))

\* main, lines 304-309: the dict of --local, or the first pair without "="
RECURSIVE ParseLocal(_, _)
ParseLocal(pairs, paths) ==
    IF pairs = <<>> THEN [ok |-> TRUE, paths |-> paths]
    ELSE IF ~HasEq(Head(pairs)) THEN [ok |-> FALSE, paths |-> paths]
    ELSE ParseLocal(Tail(pairs),
                    DictSet(paths, Text(Strip(SplitKey(Head(pairs)))),
                            Text(Strip(SplitValue(Head(pairs))))))

LocalMode(a) == a.local.given /\ Len(a.local.pairs) > 0

DatasetId(key) == EnvGet(env.dataset_ids[key])

SkipKeys(a) == IF a.skip_pud THEN {"portfolioUnitDetails"} ELSE {}

Exit(status) ==
    /\ pc' = "done"
    /\ exit_status' = status

(***************************************************************************)
(* main, lines 297-323: configuration checks up to the first I/O.          *)
(***************************************************************************)
ParseArgsAndConfig ==
    /\ pc = "main"
    /\ IF EnvGet(env.API_BASE_URL) = "" /\ ~args.dry_run
       THEN Exit(1) /\ UNCHANGED <<local_paths, k>>
       ELSE IF LocalMode(args)
       THEN LET parsed == ParseLocal(args.local.pairs, <<>>) IN
            IF parsed.ok
            THEN /\ local_paths' = parsed.paths
                 /\ k' = 1
                 /\ pc' = "load_local"
                 /\ UNCHANGED exit_status
            ELSE Exit(1) /\ UNCHANGED <<local_paths, k>>
       ELSE IF EnvGet(env.DOMO_CLIENT_ID) = "" \/ EnvGet(env.DOMO_CLIENT_SECRET) = ""
       THEN Exit(1) /\ UNCHANGED <<local_paths, k>>
       ELSE IF \A j \in 1..Len(DATASET_ID_ENV) : DatasetId(DATASET_ID_ENV[j]) = ""
       THEN Exit(1) /\ UNCHANGED <<local_paths, k>>
       ELSE /\ pc' = "domo_token"
            /\ UNCHANGED <<local_paths, k, exit_status>>
    /\ UNCHANGED << args, env, payload, sync_payload, i, c, chunks, full_hash,
                    requests, all_synced, all_skipped, all_errors, result,
                    stdout, stderr >>

(***************************************************************************)
(* build_payload_from_domo, line 151: get_domo_token.  It is called        *)
(* outside any try: a failure leaves main() as an uncaught exception, and  *)
(* the interpreter exits with status 1.                                    *)
(***************************************************************************)
DomoToken ==
    /\ pc = "domo_token"
    /\ \E ok \in BOOLEAN :
          IF ok
          THEN pc' = "fetch_domo" /\ k' = 1 /\ UNCHANGED exit_status
          ELSE Exit(1) /\ UNCHANGED k
    /\ UNCHANGED << args, env, local_paths, payload, sync_payload, i, c, chunks,
                    full_hash, requests, all_synced, all_skipped, all_errors,
                    result, stdout, stderr >>

\* main, lines 326-328
DropSkippedPud(a, p) ==
    IF a.skip_pud /\ DictHas(p, "portfolioUnitDetails")
    THEN DictDel(p, "portfolioUnitDetails")
    ELSE p

(***************************************************************************)
(* build_payload_from_domo, lines 153-164: one iteration of the loop over  *)
(* dataset_ids; after the last one, main's lines 326-328.                  *)
(***************************************************************************)
FetchDomo ==
    /\ pc = "fetch_domo"
    /\ k <= Len(DATASET_ID_ENV)
    /\ LET key == DATASET_ID_ENV[k]
           ds_id == DatasetId(key)
           last == k = Len(DATASET_ID_ENV)
       IN  /\ IF ds_id = "" \/ key \in SkipKeys(args)
              THEN /\ payload' = IF last THEN DropSkippedPud(args, payload) ELSE payload
                   /\ stderr' = IF key \in SkipKeys(args) /\ ds_id /= ""
                                THEN Append(stderr, [key |-> key, line |-> "skipped (not fetching)"])
                                ELSE stderr
              ELSE \E ok \in BOOLEAN, n \in ExportSizes :
                      IF ok
                      THEN /\ payload' = IF last
                                         THEN DropSkippedPud(args, DictSet(payload, key, Rows(n)))
                                         ELSE DictSet(payload, key, Rows(n))
                           /\ UNCHANGED stderr
                      ELSE /\ n = 0
                           /\ payload' = IF last THEN DropSkippedPud(args, payload) ELSE payload
                           /\ stderr' = Append(stderr, [key |-> key, line |-> "skip"])
           /\ k' = k + 1
           /\ pc' = IF last THEN "select" ELSE "fetch_domo"
    /\ UNCHANGED << args, env, local_paths, sync_payload, i, c, chunks, full_hash,
                    requests, all_synced, all_skipped, all_errors, result, stdout,
                    exit_status >>

\* load_local_json, lines 137-140, on the parsed content of the file
LoadLocalJson(data) == IF data.is_list THEN data.list ELSE <<data.obj>>

(***************************************************************************)
(* build_payload_from_local, lines 170-180: one iteration of the loop      *)
(* over local_paths.                                                       *)
(***************************************************************************)
LoadLocal ==
    /\ pc = "load_local"
    /\ k <= Len(local_paths)
    /\ LET key == local_paths[k].key IN
          IF ~InSyncKeys(key)
          THEN /\ stderr' = Append(stderr, [key |-> key, line |-> "unknown key"])
               /\ UNCHANGED payload
          ELSE \E ok \in BOOLEAN, data \in FileContents :
                  IF ok
                  THEN /\ payload' = DictSet(payload, key, LoadLocalJson(data))
                       /\ UNCHANGED stderr
                  ELSE /\ data.is_list /\ data.list = <<>>
                       /\ stderr' = Append(stderr, [key |-> key, line |-> "skip"])
                       /\ UNCHANGED payload
    /\ k' = k + 1
    /\ pc' = IF k = Len(local_paths) THEN "select" ELSE "load_local"
    /\ UNCHANGED << args, env, local_paths, sync_payload, i, c, chunks, full_hash,
                    requests, all_synced, all_skipped, all_errors, result, stdout,
                    exit_status >>

\* the emptiness check left out
NothingToSyncNever(p) == FALSE

\* main, line 330: not payload
NothingToSync(p) == Len(p) = 0

\* --only compared without strip()
ApplyOnlyUnstripped(a, p) ==
    IF ~(a.only.given /\ Text(a.only.value) /= "")
    THEN [fatal |-> FALSE, payload |-> p]
    ELSE LET only_key == Text(a.only.value) IN
         IF DictHas(p, only_key)
         THEN [fatal |-> FALSE,
               payload |-> <<[key |-> only_key, val |-> DictGet(p, only_key)]>>]
         ELSE [fatal |-> TRUE, payload |-> p]

\* main, lines 334-341: the payload after --only, or the fatal "Unknown --only key"
ApplyOnly(a, p) ==
    IF ~(a.only.given /\ Text(a.only.value) /= "")
    THEN [fatal |-> FALSE, payload |-> p]
    ELSE LET only_key == Text(Strip(a.only.value)) IN
         IF only_key /= "" /\ DictHas(p, only_key)
         THEN [fatal |-> FALSE,
               payload |-> <<[key |-> only_key, val |-> DictGet(p, only_key)]>>]
         ELSE IF only_key /= ""
         THEN [fatal |-> TRUE, payload |-> p]
         ELSE [fatal |-> FALSE, payload |-> p]

RECURSIVE TotalRows(_)
TotalRows(p) == IF p = <<>> THEN 0 ELSE Len(Head(p).val) + TotalRows(Tail(p))

\* main, lines 344-345: the document --dry-run prints
DrySummary(p) == [keys |-> DictKeys(p), total_rows |-> TotalRows(p)]

\* --dry-run ignored
DryRunIgnored(a) == FALSE

\* main, line 343
DryRun(a) == a.dry_run

(***************************************************************************)
(* main, lines 330-346: "No data to sync", --only, --dry-run.              *)
(***************************************************************************)
SelectPayload ==
    /\ pc = "select"
    /\ IF NothingToSync(payload)
       THEN Exit(1) /\ UNCHANGED <<sync_payload, stdout>>
       ELSE LET sel == ApplyOnly(args, payload) IN
            IF sel.fatal
            THEN Exit(1) /\ UNCHANGED <<sync_payload, stdout>>
            ELSE /\ sync_payload' = sel.payload
                 /\ IF DryRun(args)
                    THEN /\ stdout' = Append(stdout, DrySummary(sel.payload))
                         /\ Exit(0)
                    ELSE /\ pc' = "post_sync"
                         /\ UNCHANGED <<stdout, exit_status>>
    /\ UNCHANGED << args, env, local_paths, k, payload, i, c, chunks, full_hash,
                    requests, all_synced, all_skipped, all_errors, result, stderr >>

(***************************************************************************)
(* post_sync.                                                              *)
(***************************************************************************)
\* _data_hash, lines 185-186.  The SHA-256 digest is taken as injective: the
\* digest is the pair it is computed from, the length and the rows[:50] sample.
DataHash(rows) == [len |-> Len(rows), sample |-> Slice(rows, 0, HashSampleRows)]

\* the threshold compared with < instead of <=
SingleRequestBelow(total_rows) == total_rows < CHUNK_ROWS

\* line 199: the dataset goes in one request
SingleRequest(total_rows) == total_rows <= CHUNK_ROWS

\* range(0, total_rows, CHUNK_ROWS)
RECURSIVE RangeFrom(_, _)
RangeFrom(j, total_rows) ==
    IF j >= total_rows THEN <<>> ELSE <<j>> \o RangeFrom(j + CHUNK_ROWS, total_rows)

\* a split into whole chunks only: the rows after the last full chunk are lost
ChunksOfWholeOnly(rows) ==
    [n \in 1..(Len(rows) \div CHUNK_ROWS) |->
        Slice(rows, (n - 1) * CHUNK_ROWS, n * CHUNK_ROWS)]

\* line 217
ChunksOf(rows) ==
    LET starts == RangeFrom(0, Len(rows)) IN
    [n \in 1..Len(starts) |-> Slice(rows, starts[n], starts[n] + CHUNK_ROWS)]

PyBool(b) == IF b THEN "true" ELSE "false"

JsonHeaders == "Content-Type" :> "application/json"

\* the total and the hash attached to every chunk
ChunkHeadersTotalsOnAll(cc, num_chunks, total_rows, hash) ==
    JsonHeaders
        @@ ("X-Leasing-Sync-First-Chunk" :> PyBool(cc = 0))
        @@ ("X-Leasing-Sync-Last-Chunk" :> PyBool(cc = num_chunks - 1))
        @@ ("X-Leasing-Sync-Total-Rows" :> ToString(total_rows))
        @@ ("X-Leasing-Sync-Data-Hash" :> hash)

\* lines 221-228: the headers of chunk cc (0-based) of num_chunks
ChunkHeaders(cc, num_chunks, total_rows, hash) ==
    LET first == cc = 0
        last == cc = num_chunks - 1
        marks == JsonHeaders
                   @@ ("X-Leasing-Sync-First-Chunk" :> PyBool(first))
                   @@ ("X-Leasing-Sync-Last-Chunk" :> PyBool(last))
    IN  IF last
        THEN marks @@ ("X-Leasing-Sync-Total-Rows" :> ToString(total_rows))
                   @@ ("X-Leasing-Sync-Data-Hash" :> hash)
        ELSE marks

(***************************************************************************)
(* What requests.post can do with a request for dataset key: raise         *)
(* (timeout, connection failure), or return a response whose body is not   *)
(* JSON, is JSON but no object, or is the backend's JSON object.           *)
(***************************************************************************)
Outcomes(key) ==
    { [kind |-> "exception", synced |-> <<>>, skipped |-> <<>>, errors |-> <<>>],
      [kind |-> "not_json", synced |-> <<>>, skipped |-> <<>>, errors |-> <<>>],
      [kind |-> "json_array", synced |-> <<>>, skipped |-> <<>>, errors |-> <<>>],
      [kind |-> "json", synced |-> <<key>>, skipped |-> <<>>, errors |-> <<>>],
      [kind |-> "json", synced |-> <<>>, skipped |-> <<key>>,
       errors |-> <<[dataset |-> key, message |-> "rejected"]>>] }

ErrorRecord(key, message) == [dataset |-> key, message |-> message]

\* the errors member of the response is never read
CollectResponseDropsErrors(r, key, synced, skipped, errors) ==
    IF r.kind = "not_json"
    THEN [raised |-> FALSE, synced |-> synced, skipped |-> skipped,
          errors |-> Append(errors, ErrorRecord(key, "Response not JSON"))]
    ELSE IF r.kind = "json_array"
    THEN [raised |-> TRUE, synced |-> synced, skipped |-> skipped, errors |-> errors]
    ELSE [raised |-> FALSE, synced |-> synced \o r.synced,
          skipped |-> skipped \o r.skipped, errors |-> errors]

\* _collect_response, lines 258-266.  data.get on a JSON value that is no
\* object raises AttributeError, which the function does not catch.
CollectResponse(r, key, synced, skipped, errors) ==
    IF r.kind = "not_json"
    THEN [raised |-> FALSE, synced |-> synced, skipped |-> skipped,
          errors |-> Append(errors, ErrorRecord(key, "Response not JSON"))]
    ELSE IF r.kind = "json_array"
    THEN [raised |-> TRUE, synced |-> synced, skipped |-> skipped, errors |-> errors]
    ELSE [raised |-> FALSE,
          synced |-> synced \o r.synced,
          skipped |-> skipped \o r.skipped,
          errors |-> IF r.errors /= <<>> THEN errors \o r.errors ELSE errors]

\* a handler for transport errors only
CaughtTransportOnly(r) == r.kind = "exception"

\* lines 211 and 237: except Exception catches whatever requests.post or
\* _collect_response raised for outcome r
Caught(r) == TRUE

\* lines 206-213 and 232-239: the try block around one requests.post
Attempt(r, key, synced, skipped, errors) ==
    LET got == IF r.kind = "exception"
               THEN [raised |-> TRUE, synced |-> synced, skipped |-> skipped,
                     errors |-> errors]
               ELSE CollectResponse(r, key, synced, skipped, errors)
    IN  IF got.raised /\ Caught(r)
        THEN [raised |-> TRUE, escaped |-> FALSE, synced |-> got.synced,
              skipped |-> got.skipped,
              errors |-> Append(got.errors, ErrorRecord(key, "exception"))]
        ELSE [raised |-> got.raised, escaped |-> got.raised, synced |-> got.synced,
              skipped |-> got.skipped, errors |-> got.errors]

Sent(key, rows, headers, r) ==
    [key |-> key, rows |-> rows, headers |-> headers, outcome |-> r]

(***************************************************************************)
(* Lines 198-214: a dataset of at most CHUNK_ROWS rows, one request.       *)
(***************************************************************************)
PostSingle ==
    /\ pc = "post_sync"
    /\ i < Len(sync_payload)
    /\ LET key == sync_payload[i + 1].key
           rows == sync_payload[i + 1].val
       IN  /\ SingleRequest(Len(rows))
           /\ \E r \in Outcomes(key) :
                 LET got == Attempt(r, key, all_synced, all_skipped, all_errors) IN
                 /\ requests' = Append(requests, Sent(key, rows, JsonHeaders, r))
                 /\ all_synced' = got.synced
                 /\ all_skipped' = got.skipped
                 /\ all_errors' = got.errors
                 /\ IF got.escaped
                    THEN Exit(1) /\ UNCHANGED i
                    ELSE i' = i + 1 /\ UNCHANGED <<pc, exit_status>>
    /\ UNCHANGED << args, env, local_paths, k, payload, sync_payload, c, chunks,
                    full_hash, result, stdout, stderr >>

(***************************************************************************)
(* Lines 216-219: a larger dataset is hashed and split before any request. *)
(***************************************************************************)
BeginChunked ==
    /\ pc = "post_sync"
    /\ i < Len(sync_payload)
    /\ ~SingleRequest(Len(sync_payload[i + 1].val))
    /\ full_hash' = DataHash(sync_payload[i + 1].val)
    /\ chunks' = ChunksOf(sync_payload[i + 1].val)
    /\ c' = 0
    /\ pc' = "chunk"
    /\ UNCHANGED << args, env, local_paths, k, payload, sync_payload, i, requests,
                    all_synced, all_skipped, all_errors, result, stdout, stderr,
                    exit_status >>

\* lines 237-242: where the chunk loop goes after chunk cc: on an exception
\* it breaks, after the last chunk it ends, otherwise it goes on
ChunkLoopEnds(raised, cc, num_chunks) == raised \/ cc >= num_chunks - 1

(***************************************************************************)
(* Lines 220-242: one iteration of the chunk loop.                         *)
(***************************************************************************)
PostChunk ==
    /\ pc = "chunk"
    /\ LET key == sync_payload[i + 1].key
           rows == sync_payload[i + 1].val
           num_chunks == Len(chunks)
           headers == ChunkHeaders(c, num_chunks, Len(rows), full_hash)
       IN  \E r \in Outcomes(key) :
              LET got == Attempt(r, key, all_synced, all_skipped, all_errors) IN
              /\ requests' = Append(requests, Sent(key, chunks[c + 1], headers, r))
              /\ all_synced' = got.synced
              /\ all_skipped' = got.skipped
              /\ all_errors' = got.errors
              /\ IF got.escaped
                 THEN Exit(1) /\ UNCHANGED <<i, c>>
                 ELSE IF ChunkLoopEnds(got.raised, c, num_chunks)
                 THEN pc' = "post_sync" /\ i' = i + 1 /\ UNCHANGED <<c, exit_status>>
                 ELSE c' = c + 1 /\ UNCHANGED <<pc, i, exit_status>>
    /\ UNCHANGED << args, env, local_paths, k, payload, sync_payload, chunks,
                    full_hash, result, stdout, stderr >>

\* all_errors if all_errors else None
ListOrNone(l) == [is_none |-> l = <<>>, list |-> l]

\* truth value of result.get("errors")
Truthy(v) == ~v.is_none /\ v.list /= <<>>

\* lines 243-248
SyncResult(synced, skipped, errors) ==
    [success |-> Len(errors) = 0, synced |-> synced, skipped |-> skipped,
     errors |-> ListOrNone(errors)]

\* the status of a configuration failure returned for a failed sync
SyncExitStatusOne(res) == IF Truthy(res.errors) THEN 1 ELSE 0

\* main, lines 350-352
SyncExitStatus(res) == IF Truthy(res.errors) THEN 2 ELSE 0

(***************************************************************************)
(* post_sync returns (lines 243-248); main prints the result and exits     *)
(* (lines 349-352).                                                        *)
(***************************************************************************)
ReturnResult ==
    /\ pc = "post_sync"
    /\ i >= Len(sync_payload)
    /\ LET res == SyncResult(all_synced, all_skipped, all_errors) IN
       /\ result' = <<res>>
       /\ stdout' = Append(stdout, res)
       /\ Exit(SyncExitStatus(res))
    /\ UNCHANGED << args, env, local_paths, k, payload, sync_payload, i, c, chunks,
                    full_hash, requests, all_synced, all_skipped, all_errors, stderr >>

Next ==
    \/ ParseArgsAndConfig
    \/ DomoToken
    \/ FetchDomo
    \/ LoadLocal
    \/ SelectPayload
    \/ PostSingle
    \/ BeginChunked
    \/ PostChunk
    \/ ReturnResult

Spec == Init /\ [][Next]_vars

(***************************************************************************)
(* Vocabulary of the properties.                                           *)
(***************************************************************************)
ChunkHeaderNames ==
    { "X-Leasing-Sync-First-Chunk", "X-Leasing-Sync-Last-Chunk",
      "X-Leasing-Sync-Total-Rows", "X-Leasing-Sync-Data-Hash" }

\* the positions in requests of the requests sent for dataset key
RequestsOf(key) == { q \in 1..Len(requests) : requests[q].key = key }

\* the bodies sent for dataset key, in the order sent
BodiesOf(key) == SelectSeq(requests, LAMBDA q : q.key = key)

RECURSIVE Concat(_)
Concat(bodies) == IF bodies = <<>> THEN <<>> ELSE Head(bodies).rows \o Concat(Tail(bodies))

\* ceil(n / d), without the division of the code
Ceil(n, d) == CHOOSE m \in 0..n : m * d >= n /\ (m - 1) * d < n

\* post_sync was entered
InPostSync == pc \in {"post_sync", "chunk"} \/ (pc = "done" /\ ~args.dry_run /\ sync_payload /= <<>>)

\* post_sync is past dataset number j (1-based) of the payload it was given
Finished(j) == InPostSync /\ (i >= j \/ result /= <<>>)

\* the request raised inside the try block: requests.post itself, or the
\* handling of a response whose JSON is no object
Raised(q) == q.outcome.kind \in {"exception", "json_array"}

\* the request left an error: it raised, its response was not JSON, or the
\* backend reported errors
Failed(q) == Raised(q) \/ q.outcome.kind = "not_json" \/ q.outcome.errors /= <<>>

\* main ran its lines 330-346
Selected == pc \in {"post_sync", "chunk"} \/ (pc = "done" /\ k > 0)

Chunked(j) == Len(sync_payload[j].val) > CHUNK_ROWS

\* C1 as stated: every dataset of more than CHUNK_ROWS rows that post_sync is
\* done with was sent in ceil(rowCount / CHUNK_ROWS) requests of at most
\* CHUNK_ROWS rows each, whose bodies concatenate to the dataset's rows.
C1_AllChunksSent ==
    \A j \in 1..Len(sync_payload) :
        (Finished(j) /\ Chunked(j)) =>
            LET rows == sync_payload[j].val
                sent == BodiesOf(sync_payload[j].key)
            IN  /\ Len(sent) = Ceil(Len(rows), CHUNK_ROWS)
                /\ \A n \in 1..Len(sent) : Len(sent[n].rows) <= CHUNK_ROWS
                /\ Concat(sent) = rows

\* C1 amended: at every moment the bodies sent for a dataset of more than
\* CHUNK_ROWS rows are consecutive slices from the start of its rows, each
\* of exactly CHUNK_ROWS rows except a shorter one that ends the dataset;
\* and once post_sync is done with the dataset, either one of its requests
\* raised and was the last one sent for it, or there were
\* ceil(rowCount / CHUNK_ROWS) requests and the bodies concatenate to all rows.
C1_ChunksPartitionRows ==
    \A j \in 1..Len(sync_payload) :
        (InPostSync /\ Chunked(j)) =>
            LET rows == sync_payload[j].val
                sent == BodiesOf(sync_payload[j].key)
                upto == Len(Concat(sent))
            IN  /\ upto <= Len(rows)
                /\ Concat(sent) = SubSeq(rows, 1, upto)
                /\ \A n \in 1..Len(sent) :
                      /\ Len(sent[n].rows) \in 1..CHUNK_ROWS
                      /\ Len(sent[n].rows) < CHUNK_ROWS => (n = Len(sent) /\ upto = Len(rows))
                      /\ Raised(sent[n]) => n = Len(sent)
                /\ (Finished(j) /\ \A n \in 1..Len(sent) : ~Raised(sent[n])) =>
                      /\ Len(sent) = Ceil(Len(rows), CHUNK_ROWS)
                      /\ Concat(sent) = rows

\* a dataset of three chunks was uploaded whole, after another dataset
C1_Witness ==
    /\ pc = "done"
    /\ result /= <<>>
    /\ Len(sync_payload) = 2
    /\ Len(sync_payload[2].val) = MaxRows
    /\ Len(BodiesOf(sync_payload[2].key)) = Ceil(MaxRows, CHUNK_ROWS)
    /\ Len(BodiesOf(sync_payload[2].key)) >= 3

\* request number q is the first one sent for its dataset
FirstOfDataset(q) == \A h \in 1..(q - 1) : requests[h].key /= requests[q].key

\* request number q holds the final slice of its dataset: its body ends
\* with the dataset's last row (rows are distinct)
HoldsFinalSlice(q) ==
    LET rows == DictGet(sync_payload, requests[q].key)
        body == requests[q].rows
    IN  body /= <<>> /\ rows /= <<>> /\ body[Len(body)] = rows[Len(rows)]

\* C2: a request of a chunked dataset carries both markers, the first-chunk
\* marker "true" exactly on the first request sent for the dataset and the
\* last-chunk marker "true" exactly on the request holding the final slice;
\* the total-rows and data-hash headers are on a request exactly when it is
\* such a last chunk, and hold the dataset's row count and the hash of the
\* whole dataset.
C2_ChunkMarkers ==
    \A q \in 1..Len(requests) :
        LET h == requests[q].headers
            rows == DictGet(sync_payload, requests[q].key)
            chunked == Len(rows) > CHUNK_ROWS
            last == chunked /\ HoldsFinalSlice(q)
        IN  /\ chunked =>
                  /\ {"X-Leasing-Sync-First-Chunk", "X-Leasing-Sync-Last-Chunk"} \subseteq DOMAIN h
                  /\ h["X-Leasing-Sync-First-Chunk"] = PyBool(FirstOfDataset(q))
                  /\ h["X-Leasing-Sync-Last-Chunk"] = PyBool(HoldsFinalSlice(q))
            /\ ("X-Leasing-Sync-Total-Rows" \in DOMAIN h) = last
            /\ ("X-Leasing-Sync-Data-Hash" \in DOMAIN h) = last
            /\ last =>
                  /\ h["X-Leasing-Sync-Total-Rows"] = ToString(Len(rows))
                  /\ h["X-Leasing-Sync-Data-Hash"].len = Len(rows)
                  /\ h["X-Leasing-Sync-Data-Hash"].sample = SubSeq(rows, 1, Min(HashSampleRows, Len(rows)))

\* a first, a middle and a last chunk of one dataset were sent, then a
\* request of the next dataset
C2_Witness ==
    \E q \in 1..Len(requests) :
        /\ q + 3 <= Len(requests)
        /\ Len(DictGet(sync_payload, requests[q].key)) > CHUNK_ROWS
        /\ requests[q].headers["X-Leasing-Sync-First-Chunk"] = "true"
        /\ requests[q + 1].key = requests[q].key
        /\ requests[q + 1].headers["X-Leasing-Sync-First-Chunk"] = "false"
        /\ requests[q + 1].headers["X-Leasing-Sync-Last-Chunk"] = "false"
        /\ requests[q + 2].key = requests[q].key
        /\ "X-Leasing-Sync-Total-Rows" \in DOMAIN requests[q + 2].headers
        /\ requests[q + 3].key /= requests[q].key

\* C3: a dataset of at most CHUNK_ROWS rows (zero rows included) never has
\* more than one request, and has exactly one once post_sync is past it:
\* its body is all the rows of the dataset and it carries none of the four
\* chunk headers.
C3_SingleRequest ==
    \A j \in 1..Len(sync_payload) :
        (InPostSync /\ ~Chunked(j)) =>
            LET sent == BodiesOf(sync_payload[j].key) IN
            /\ Len(sent) <= 1
            /\ Finished(j) => Len(sent) = 1
            /\ \A n \in 1..Len(sent) :
                  /\ sent[n].rows = sync_payload[j].val
                  /\ DOMAIN sent[n].headers \cap ChunkHeaderNames = {}

\* datasets of zero rows and of exactly CHUNK_ROWS rows were both sent
C3_Witness ==
    /\ pc = "done"
    /\ result /= <<>>
    /\ Len(sync_payload) = 2
    /\ Len(sync_payload[1].val) = 0
    /\ Len(sync_payload[2].val) = CHUNK_ROWS
    /\ Len(requests) = 2

\* the request failed: requests.post raised, or the response could not be
\* handled as the backend's JSON object
RequestFailure(q) == q.outcome.kind \in {"exception", "not_json", "json_array"}

\* C4: in a chunked upload no chunk of a dataset is sent after a chunk of
\* that dataset whose request failed, and the failure is recorded as an
\* error of that dataset.
C4_FailureAbortsDataset ==
    \A q \in 1..Len(requests) :
        (Len(DictGet(sync_payload, requests[q].key)) > CHUNK_ROWS /\ RequestFailure(requests[q])) =>
            /\ \A h \in (q + 1)..Len(requests) : requests[h].key /= requests[q].key
            /\ \E e \in 1..Len(all_errors) : all_errors[e].dataset = requests[q].key

RECURSIVE Dedup(_)
Dedup(keys) ==
    IF Len(keys) <= 1 THEN keys
    ELSE IF keys[1] = keys[2] THEN Dedup(Tail(keys))
    ELSE <<keys[1]>> \o Dedup(Tail(keys))

RequestKeys == [q \in 1..Len(requests) |-> requests[q].key]

\* C5: a run that enters post_sync ends with post_sync's result, whatever
\* the requests did; the datasets are attempted in the payload's order, and
\* at the end every dataset of the payload has had a request.
C5_EveryDatasetAttempted ==
    InPostSync =>
        /\ Dedup(RequestKeys) = SubSeq(DictKeys(sync_payload), 1, Len(Dedup(RequestKeys)))
        /\ pc = "done" =>
              /\ result /= <<>>
              /\ Dedup(RequestKeys) = DictKeys(sync_payload)

\* the upload of the first dataset raised at its first chunk, and the
\* second dataset was sent
C5_Witness ==
    /\ pc = "done"
    /\ Len(sync_payload) = 2
    /\ Len(requests) >= 2
    /\ Chunked(1)
    /\ Raised(requests[1])
    /\ requests[2].key = sync_payload[2].key
    /\ requests[2].outcome.kind = "not_json"

\* the errors member of the document post_sync's caller printed
PrintedErrors == stdout[Len(stdout)].errors.list

\* C6: the result reports success exactly when no request of the run left
\* an error record, and the exit status after post_sync is 0 in that case
\* and 2 otherwise.
C6_SuccessAndExitStatus ==
    (pc = "done" /\ result /= <<>>) =>
        LET clean == \A q \in 1..Len(requests) : ~Failed(requests[q]) IN
        /\ result[1].success = clean
        /\ result[1].success = (Len(all_errors) = 0)
        /\ (exit_status = 0) = clean
        /\ (exit_status = 2) = ~clean

\* a run of two datasets whose only error is one the backend reported
C6_Witness ==
    /\ pc = "done"
    /\ result /= <<>>
    /\ exit_status = 2
    /\ Len(sync_payload) = 2
    /\ Len(all_errors) = 1
    /\ all_errors[1].message = "rejected"

\* the error records request q must leave in the outcome
ErrorsLeftBy(q) ==
    IF Raised(q) THEN <<[dataset |-> q.key, message |-> "exception"]>>
    ELSE IF q.outcome.kind = "not_json"
    THEN <<[dataset |-> q.key, message |-> "Response not JSON"]>>
    ELSE q.outcome.errors

RECURSIVE ErrorsLeft(_)
ErrorsLeft(reqs) == IF reqs = <<>> THEN <<>> ELSE ErrorsLeftBy(Head(reqs)) \o ErrorsLeft(Tail(reqs))

\* the datasets whose fetch, read or parse failed while the payload was built
SourceErrors == { stderr[n].key : n \in { m \in 1..Len(stderr) : stderr[m].line = "skip" } }

\* C7 as stated: the printed outcome of a run that reached post_sync holds
\* an error record for every dataset whose source failed and for every
\* request that failed.
C7_AllErrorsSurfaced ==
    (pc = "done" /\ result /= <<>>) =>
        /\ \A key \in SourceErrors :
              \E e \in 1..Len(PrintedErrors) : PrintedErrors[e].dataset = key
        /\ PrintedErrors = ErrorsLeft(requests)

\* C7 amended: the printed outcome of a run that reached post_sync holds,
\* in the order of the requests, the error record of every request that
\* raised or whose response was not JSON and every error record the backend
\* reported, and nothing else; a dataset whose source failed is left out of
\* the payload, so nothing is sent for it.
C7_RequestErrorsSurfaced ==
    /\ (pc = "done" /\ result /= <<>>) =>
          /\ PrintedErrors = ErrorsLeft(requests)
          /\ result[1].errors.is_none = (ErrorsLeft(requests) = <<>>)
    /\ \A key \in SourceErrors :
          /\ ~DictHas(payload, key)
          /\ RequestsOf(key) = {}

\* one dataset failed at its source, the other was sent and the backend
\* reported an error for it
C7_Witness ==
    /\ pc = "done"
    /\ result /= <<>>
    /\ SourceErrors /= {}
    /\ Len(PrintedErrors) = 1
    /\ PrintedErrors[1].message = "rejected"

\* the key --only names, as main compares it
OnlyKey == Text(Strip(args.only.value))

OnlyOutcome ==
    IF DictHas(payload, OnlyKey)
    THEN /\ sync_payload = <<[key |-> OnlyKey, val |-> DictGet(payload, OnlyKey)]>>
         /\ \A q \in 1..Len(requests) : requests[q].key = OnlyKey
    ELSE /\ pc = "done"
         /\ exit_status = 1
         /\ sync_payload = <<>>
         /\ requests = <<>>
         /\ stdout = <<>>

\* C8 as stated: whatever value --only was given, once main is past the
\* selection the payload is that one key with its rows as built, or the
\* key is not in the built payload and the run ended with status 1 and no
\* request.
C8_OnlyAnyValue == (Selected /\ args.only.given) => OnlyOutcome

\* C8 amended: the same for every value of --only that is not empty once
\* stripped of surrounding blanks, the key being the stripped value.
C8_OnlyRestricts == (Selected /\ args.only.given /\ OnlyKey /= "") => OnlyOutcome

\* a padded --only key picked one dataset out of two, and it was sent
C8_Witness ==
    /\ pc = "done"
    /\ args.only.given
    /\ Len(args.only.value) > 1
    /\ OnlyKey /= ""
    /\ Len(payload) = 2
    /\ Len(sync_payload) = 1
    /\ requests /= <<>>

\* C9: a run whose built payload has no key ends with exit status 1
\* without a request and without printing a summary.
C9_EmptyPayloadExits ==
    (Len(payload) = 0 /\ (pc = "select" \/ Selected)) =>
        /\ requests = <<>>
        /\ stdout = <<>>
        /\ Selected => (pc = "done" /\ exit_status = 1)

\* every source failed, with --dry-run and --only given
C9_Witness ==
    /\ Selected
    /\ Len(payload) = 0
    /\ SourceErrors /= {}
    /\ args.dry_run
    /\ args.only.given
    /\ OnlyKey /= ""

RECURSIVE AllRows(_)
AllRows(p) == IF p = <<>> THEN <<>> ELSE Head(p).val \o AllRows(Tail(p))

\* C10: with --dry-run no request is ever sent; a run that built a
\* non-empty payload holding the --only key, if one was given, prints the
\* keys of the final payload and the sum of their row counts and exits
\* with status 0.
C10_DryRunSendsNothing ==
    args.dry_run =>
        /\ requests = <<>>
        /\ result = <<>>
        /\ (Selected /\ Len(payload) > 0
                /\ (args.only.given /\ OnlyKey /= "" => DictHas(payload, OnlyKey))) =>
              /\ pc = "done"
              /\ exit_status = 0
              /\ sync_payload /= <<>>
              /\ stdout = <<[keys |-> [j \in 1..Len(sync_payload) |-> sync_payload[j].key],
                             total_rows |-> Len(AllRows(sync_payload))]>>

\* a dry run without API_BASE_URL printed the summary of two datasets
C10_Witness ==
    /\ args.dry_run
    /\ EnvGet(env.API_BASE_URL) = ""
    /\ pc = "done"
    /\ exit_status = 0
    /\ Len(stdout) = 1
    /\ Len(stdout[1].keys) = 2
    /\ stdout[1].total_rows > CHUNK_ROWS

==========================================================================
